---- MODULE Spec2Model ----
(***************************************************************************)
(* OTP microservice (backend/app): the rate limiter, the OTP engine calls  *)
(* and the generate / validate / bulk-generate request handlers, with the  *)
(* HOTP counter kept in the otp_configs table.                             *)
(*                                                                         *)
(* Time is in whole seconds.  Every request runs in its own thread with    *)
(* its own database session (database.py get_db), so the handlers of       *)
(* different requests interleave at their database round trips.            *)
(***************************************************************************)
EXTENDS Integers, Sequences, FiniteSets, TLC

\* ------------------------------------------------------------------ bounds
NumProcs == 2          \* request threads of Spec; each serves one request
NumRacers == 3         \* request threads of SpecRace
MaxSteps == 1          \* clock advances of one TOTP interval
MaxFactor == 4         \* candidate codes are the codes of factors 0..MaxFactor
MaxExplicit == 1       \* explicit counters a validate request may pin: 0..MaxExplicit
MaxBulk == 2           \* longest config_ids list of a bulk request
NumKeys == 2           \* rate-limit keys of SpecRate
MaxLimit == 2          \* max_requests of SpecRate's calls: 1..MaxLimit
MaxCalls == 4          \* calls of one key followed in SpecBurst
MaxHistory == 3        \* calls of any key followed in SpecSweep
MaxFailures == 6       \* failed_login_attempts a row gets to in SpecLogin
MaxSecrets == 2        \* values generate_mfa_secret returns in SpecMfa
MaxConfigs == 4        \* rows of otp_configs in SpecCipher
MaxServed == 5         \* requests served one after the other in SpecSerial

\* ------------------------------------------------------- program constants
cleanup_interval == 300            \* RateLimiter.__init__
OneHourSeconds == 3600             \* timedelta(hours=1) in _cleanup_old_entries
GenerateMaxRequests == 30          \* generate_otp: max_requests
ValidateMaxRequests == 20          \* validate_otp: max_requests
HandlerWindow == 60                \* generate_otp / validate_otp: window
DefaultDigits == 6                 \* OTPConfig.digits default
DefaultInterval == 30              \* OTPConfig.interval default
ValidWindow == 1                   \* totp.verify(..., valid_window=1)
CreateMaxRequests == 10            \* create_otp_config: max_requests
CreateWindow == 3600               \* create_otp_config: window
LoginMaxRequests == 5              \* login_for_access_token: max_requests
LoginWindow == 300                 \* login_for_access_token: window
MAX_FAILED_ATTEMPTS == 5           \* auth.MAX_FAILED_ATTEMPTS
ACCOUNT_LOCKOUT_MINUTES == 15      \* auth.ACCOUNT_LOCKOUT_MINUTES

Procs == 1..NumProcs
Racers == 1..NumRacers
Callers == {1}                     \* authenticated users sending requests
ConfigIds == {1, 2, 3}
MissingConfigId == 1 + Cardinality(ConfigIds)   \* an id with no row
RequestConfigIds == ConfigIds \cup {MissingConfigId}
Factors == 0..MaxFactor
None == 0 - 1                      \* Python None for Optional[int]
StartTime == 2 * DefaultInterval   \* model time at service start

VARIABLES
    now,             \* datetime.utcnow(), seconds
    attempts,        \* RateLimiter.attempts: key -> list of timestamps
    last_cleanup,    \* RateLimiter.last_cleanup
    rl,              \* the latest direct is_rate_limited call and its result
    encryption_key,  \* SecurityManager.encryption_key
    configs,         \* otp_configs table: id -> row
    otp_events,      \* rows of otp_events, counted by event_type
    audit_logs,      \* number of rows of audit_logs
    req,             \* per request thread: program position and locals
    resp,            \* the latest response handed back to a caller
    env_key,         \* the ENCRYPTION_KEY environment variable
    logged,          \* values in the log lines of the latest handler step
    calls,           \* direct is_rate_limited calls so far: time, verdict
    users,           \* users table: id -> row
    accepted         \* <<config id, counter>> of every HOTP code accepted
                     \* so far at the stored counter

vars == <<now, attempts, last_cleanup, rl, encryption_key, configs,
          otp_events, audit_logs, req, resp, env_key, logged, calls, users,
          accepted>>

\* ------------------------------------------------------------ rate limiter
\* [t for t in ts if t > start]
NewerThan(ts, start) == SelectSeq(ts, LAMBDA t : t > start)

\* datetime.utcnow() read a second time within one call: the value of the
\* first read or, the clock having moved on in between, the next one
SecondReads(t) == {t, t + 1}

\* _cleanup_old_entries that filters the lists and deletes no key
cleanup_keeping_keys(att, current_time) ==
    [k \in DOMAIN att |-> NewerThan(att[k], current_time - OneHourSeconds)]

\* RateLimiter._cleanup_old_entries; current_time is its own clock read
cleanup_old_entries(att, current_time) ==
    LET one_hour_ago == current_time - OneHourSeconds
        kept == {k \in DOMAIN att : NewerThan(att[k], one_hour_ago) # <<>>}
    IN  [k \in kept |-> NewerThan(att[k], one_hour_ago)]

\* is_rate_limited with the limit test off by one (> for >=)
is_rate_limited_off_by_one(att, lc, current_time, sweep_time, key, max_requests, window) ==
    LET due == (current_time - lc) > cleanup_interval
        att1 == IF due THEN cleanup_old_entries(att, sweep_time) ELSE att
        lc1 == IF due THEN current_time ELSE lc
        old == IF key \in DOMAIN att1 THEN att1[key] ELSE <<>>
        recent == NewerThan(old, current_time - window)
        limited == Len(recent) > max_requests
        stored == IF limited THEN recent ELSE Append(recent, current_time)
    IN  [attempts |-> [k \in (DOMAIN att1) \cup {key} |->
                          IF k = key THEN stored ELSE att1[k]],
         last_cleanup |-> lc1,
         limited |-> limited,
         clock |-> IF due THEN sweep_time ELSE current_time]

\* is_rate_limited without the window filter: a timestamp never expires
is_rate_limited_never_expires(att, lc, current_time, sweep_time, key, max_requests, window) ==
    LET due == (current_time - lc) > cleanup_interval
        att1 == IF due THEN cleanup_old_entries(att, sweep_time) ELSE att
        lc1 == IF due THEN current_time ELSE lc
        old == IF key \in DOMAIN att1 THEN att1[key] ELSE <<>>
        limited == Len(old) >= max_requests
        stored == IF limited THEN old ELSE Append(old, current_time)
    IN  [attempts |-> [k \in (DOMAIN att1) \cup {key} |->
                          IF k = key THEN stored ELSE att1[k]],
         last_cleanup |-> lc1,
         limited |-> limited,
         clock |-> IF due THEN sweep_time ELSE current_time]

\* RateLimiter.is_rate_limited, as a function of the limiter's state; the
\* whole body runs under self.lock.  current_time is the clock read of line
\* 76; sweep_time is the clock read of line 97, which _cleanup_old_entries
\* makes for itself when the sweep is due.  clock is the latest value read.
is_rate_limited(att, lc, current_time, sweep_time, key, max_requests, window) ==
    LET due == (current_time - lc) > cleanup_interval
        att1 == IF due THEN cleanup_old_entries(att, sweep_time) ELSE att
        lc1 == IF due THEN current_time ELSE lc
        old == IF key \in DOMAIN att1 THEN att1[key] ELSE <<>>
        recent == NewerThan(old, current_time - window)
        limited == Len(recent) >= max_requests
        stored == IF limited THEN recent ELSE Append(recent, current_time)
    IN  [attempts |-> [k \in (DOMAIN att1) \cup {key} |->
                          IF k = key THEN stored ELSE att1[k]],
         last_cleanup |-> lc1,
         limited |-> limited,
         clock |-> IF due THEN sweep_time ELSE current_time]

\* ---------------------------------------------------------------- security
DecryptError == 0 - 2     \* stands for the ValueError; no secret has this value

\* values of ENCRYPTION_KEY: not set, a valid Fernet key, not a Fernet key
NoEnv == ""
FernetKeys == {"K1"}
EnvValues == {NoEnv, "K1", "bad"}

\* what Fernet.generate_key() may return
GeneratedKeys == {"G1", "G2", "G3"}

\* _get_or_create_encryption_key that never reads the environment
get_or_create_ignoring_env(env, new_key) == new_key

\* SecurityManager._get_or_create_encryption_key: the environment's key when
\* it is set and Fernet accepts it, a newly generated key otherwise
get_or_create_encryption_key(env, new_key) ==
    IF env # NoEnv /\ env \in FernetKeys THEN env ELSE new_key

\* encrypt_secret under a Fernet object of its own
encrypt_secret_own_key(secret, key) ==
    [key |-> "own", secret |-> secret, intact |-> TRUE, slack |-> 0]

\* SecurityManager.encrypt_secret: the base64 text of a Fernet token.  The
\* token carries the plaintext under the key and authenticates it; slack
\* stands for what base64.urlsafe_b64decode ignores in the text (unused
\* trailing bits, characters outside the alphabet), none in a new blob.
encrypt_secret(secret, key) ==
    [key |-> key, secret |-> secret, intact |-> TRUE, slack |-> 0]

\* SecurityManager.decrypt_secret: urlsafe_b64decode drops the slack; the
\* Fernet token authenticates under the key it was made with; anything else
\* raises ValueError.
decrypt_secret(blob, key) ==
    IF blob.key = key /\ blob.intact THEN blob.secret ELSE DecryptError

\* ------------------------------------------------------------- OTP engine
\* str.lower on the algorithm names of this model
lower(algorithm) ==
    CASE algorithm = "SHA1" -> "sha1"
      [] algorithm = "SHA256" -> "sha256"
      [] algorithm = "SHA512" -> "sha512"
      [] OTHER -> algorithm

\* the keys of algorithm_map
AlgorithmMap == {"sha1", "sha256", "sha512"}

\* auth.get_digest_algorithm:
\* algorithm_map.get(algorithm.lower(), hashlib.sha1)
get_digest_algorithm(algorithm) ==
    IF lower(algorithm) \in AlgorithmMap THEN lower(algorithm) ELSE "sha1"

DigestTag(digest) ==
    CASE digest = "sha1" -> 1 [] digest = "sha256" -> 2 [] OTHER -> 3

\* The keyed digest of the moving factor after dynamic truncation, a 31-bit
\* value.  The HMAC is abstracted by an arithmetic mix of the same three
\* inputs, which stays below 2^31 for the inputs of this model.
truncated_hmac(secret, digest, input) ==
    secret * 1009 + DigestTag(digest) * 9176 + input * 7919
       + input * input * 131

\* pyotp OTP.generate_otp: the truncated value modulo 10^digits
generate_otp_code(secret, digest, digits, input) ==
    truncated_hmac(secret, digest, input) % (10 ^ digits)

\* pyotp TOTP.timecode
timecode(for_time, interval) == for_time \div interval

\* HOTP.verify with a look-ahead of one counter value
hotp_verify_lookahead(secret, digest, digits, otp, counter) ==
    \/ otp = generate_otp_code(secret, digest, digits, counter)
    \/ otp = generate_otp_code(secret, digest, digits, counter + 1)

\* pyotp HOTP.verify(otp, counter)
hotp_verify(secret, digest, digits, otp, counter) ==
    otp = generate_otp_code(secret, digest, digits, counter)

\* TOTP.verify with the window one step too wide
totp_verify_wide(secret, digest, digits, interval, otp, for_time, w) ==
    \E i \in (0 - w - 1)..(w + 1) :
        otp = generate_otp_code(secret, digest, digits,
                                timecode(for_time, interval) + i)

\* pyotp TOTP.verify(otp, valid_window=w) at time for_time
totp_verify(secret, digest, digits, interval, otp, for_time, w) ==
    \E i \in (0 - w)..w :
        otp = generate_otp_code(secret, digest, digits,
                                timecode(for_time, interval) + i)

\* ------------------------------------------------------------------ store
CurrentKey == "K1"

\* pyotp.random_base32(): a secret of its own for every configuration
random_base32(config_id) == 10 + config_id

\* Rows present at service start: an HOTP and a TOTP configuration of user
\* 1 and an HOTP configuration of user 2.
InitConfigs ==
    [c \in ConfigIds |->
        [user_id |-> IF c = 3 THEN 2 ELSE 1,
         name |-> c,
         otp_type |-> IF c = 2 THEN "totp" ELSE "hotp",
         algorithm |-> IF c = 2 THEN "sha256" ELSE "sha1",
         digits |-> DefaultDigits,
         interval |-> DefaultInterval,
         counter |-> 0,
         secret_key |-> encrypt_secret(random_base32(c), CurrentKey),
         is_active |-> TRUE,
         updated_at |-> StartTime]]

\* the query without the filter on user_id
find_config_any_owner(cfgs, config_id, user) ==
    IF config_id \in DOMAIN cfgs /\ cfgs[config_id].is_active
    THEN config_id ELSE None

\* db.query(OTPConfig).filter(id, user_id, is_active).first()
FindConfig(cfgs, config_id, user) ==
    IF config_id \in DOMAIN cfgs
       /\ cfgs[config_id].user_id = user
       /\ cfgs[config_id].is_active
    THEN config_id ELSE None

\* get_otp_config / delete_otp_config:
\* db.query(OTPConfig).filter(id, user_id).first()
FindOwnConfig(cfgs, config_id, user) ==
    IF config_id \in DOMAIN cfgs /\ cfgs[config_id].user_id = user
    THEN config_id ELSE None

\* what a caller may submit as otp_code for the configuration it names: the
\* codes of the factors 0..MaxFactor under a known secret
CandidateCodes(config_id) ==
    LET c == IF config_id = 2 THEN 2 ELSE 1
    IN  {generate_otp_code(InitConfigs[c].secret_key.secret,
                           get_digest_algorithm(InitConfigs[c].algorithm),
                           InitConfigs[c].digits, f) : f \in Factors}

ExplicitCounters == {None} \cup (0..MaxExplicit)

\* ---------------------------------------------------------------- requests
NoSession == [c \in {} |-> 0]

\* models.OTPEvent.event_type
EventTypes == {"generate", "validate_success", "validate_failure"}
NoEvents == [t \in EventTypes |-> 0]

\* db.add(OTPEvent(event_type=...)); db.commit()
AddEvent(events, event_type) ==
    [events EXCEPT ![event_type] = events[event_type] + 1]

\* the number of rows of otp_events
EventCount ==
    otp_events["generate"] + otp_events["validate_success"]
       + otp_events["validate_failure"]

\* event_type='validate_success' if is_valid else 'validate_failure'
ValidateEventType(is_valid) ==
    IF is_valid THEN "validate_success" ELSE "validate_failure"

\* locals of a request thread
Req(pc, kind, user, config_id, otp_code, counter, read_counter, is_valid, current_time, next_counter, queue, results, session) ==
    [pc |-> pc, kind |-> kind, user |-> user, config_id |-> config_id,
     otp_code |-> otp_code, counter |-> counter, read_counter |-> read_counter,
     is_valid |-> is_valid, current_time |-> current_time,
     next_counter |-> next_counter, queue |-> queue, results |-> results,
     session |-> session]

IdleReq == Req("idle", "none", 0, 0, None, None, None, FALSE, 0, None,
               <<>>, <<>>, NoSession)
DoneReq == Req("done", "none", 0, 0, None, None, None, FALSE, 0, None,
               <<>>, <<>>, NoSession)

\* what a handler hands back: the HTTP status and the response model.  An
\* error response carries a detail string only.
Response(kind, status, user, config_id, otp_code, is_valid, counter, used_factor, next_counter, results) ==
    [kind |-> kind, status |-> status, user |-> user, config_id |-> config_id,
     otp_code |-> IF status = 200 THEN otp_code ELSE None,
     is_valid |-> status = 200 /\ is_valid,
     counter |-> IF status = 200 THEN counter ELSE None,
     used_factor |-> IF status = 200 THEN used_factor ELSE None,
     next_counter |-> IF status = 200 THEN next_counter ELSE None,
     results |-> results]

NoResp == Response("none", 0, 0, 0, None, FALSE, None, None, None, <<>>)

\* one direct call of is_rate_limited: its arguments and its result
Call(key, max_requests, window, limited) ==
    [key |-> key, max_requests |-> max_requests, window |-> window,
     limited |-> limited]

NoCall == Call(<<"none", 0>>, 0, 0, FALSE)

\* A row of users as create_user stores it: no failed login, no lock, no
\* second factor (the column defaults of models.User).
NewUser ==
    [failed_login_attempts |-> 0, account_locked_until |-> None,
     mfa_enabled |-> FALSE, mfa_secret |-> None, last_login |-> None]

\* the accounts present at service start
InitUsers == [u \in Callers |-> NewUser]

InitWith(threads) ==
    /\ now = StartTime
    /\ attempts = [k \in {} |-> <<>>]
    /\ last_cleanup = StartTime
    /\ rl = NoCall
    /\ encryption_key = CurrentKey
    /\ configs = InitConfigs
    /\ otp_events = NoEvents
    /\ audit_logs = 0
    /\ req = [p \in threads |-> IdleReq]
    /\ resp = NoResp
    /\ env_key = CurrentKey
    /\ logged = {}
    /\ calls = <<>>
    /\ users = InitUsers
    /\ accepted = {}

Init == InitWith(Procs)

\* the clock moves on by one TOTP interval.  With the handlers the clock
\* stays within cleanup_interval of the start: no sweep of the limiter is due
\* in their calls, whose second clock read is therefore never made.
Tick ==
    /\ now + DefaultInterval <= StartTime + MaxSteps * DefaultInterval
    /\ now' = now + DefaultInterval
    /\ UNCHANGED <<attempts, last_cleanup, rl, encryption_key, configs,
                   otp_events, audit_logs, req, resp, env_key, logged, calls,
                   users, accepted>>

\* a new request goes to the first free thread of the pool
Free(p) ==
    /\ req[p].pc = "idle"
    /\ \A q \in DOMAIN req : q < p => req[q].pc # "idle"

\* ------------------------------------------------- counter advance rules
\* generate_otp: the HOTP branch with `if gen_data.counter_increment`
advance_on_generate(otp_type, counter_increment) ==
    otp_type = "hotp" /\ counter_increment

\* no advance at all
advance_never(otp_type, is_valid, counter) == FALSE

\* the advance without the test of is_valid
advance_on_any_verdict(otp_type, is_valid, counter) ==
    otp_type = "hotp" /\ counter = None

\* the advance without the test of validate_data.counter
advance_ignoring_pin(otp_type, is_valid, counter) ==
    otp_type = "hotp" /\ is_valid

\* validate_otp: the HOTP branch with
\* `if is_valid and validate_data.counter is None`
advance_on_success(otp_type, is_valid, counter) ==
    otp_type = "hotp" /\ is_valid /\ counter = None

\* validate_otp: counter = validate_data.counter if validate_data.counter
\* is not None else config.counter
checked_counter(counter, stored) ==
    IF counter # None THEN counter ELSE stored

\* ------------------------------------------------------------ log lines
\* int(config.interval - (current_timestamp % config.interval))
remaining_seconds(current_time, interval) ==
    interval - (current_time % interval)

\* the log lines of generate_otp, with the decrypted secret in one of them
generate_log_values_with_secret(user, config_id, found, secret, otp_type, remaining) ==
    {config_id, user}
       \cup (IF found # None THEN {secret} ELSE {})
       \cup (IF found # None /\ secret # DecryptError /\ otp_type = "totp"
             THEN {remaining} ELSE {})

\* the values generate_otp writes with logger.info / warning / error before
\* its counter write: the config id and the user (lines 429, 438, 445) and
\* the remaining seconds of a TOTP code (line 470)
generate_log_values(user, config_id, found, secret, otp_type, remaining) ==
    {config_id, user}
       \cup (IF found # None /\ secret # DecryptError /\ otp_type = "totp"
             THEN {remaining} ELSE {})

\* the values validate_otp writes to the log: the config id and the
\* submitted code (lines 540, 549, 556) and the checked counter of an HOTP
\* validation (line 591)
validate_log_values(config_id, otp_code, found, secret, otp_type, used) ==
    {config_id, otp_code}
       \cup (IF found # None /\ secret # DecryptError /\ otp_type = "hotp"
             THEN {used} ELSE {})

\* ------------------------------------------------------- handler outcome
\* the handler without the rate-limit test in front
handler_status_ungated(limited, found, secret) ==
    IF found = None THEN 500
    ELSE IF secret = DecryptError THEN 500
    ELSE 200

\* generate_otp / validate_otp: 429 from the rate-limit test before the try
\* block; inside it, the 404 of a missing row and the 500 of a failed
\* decryption both leave through `except Exception` as a 500
handler_status(limited, found, secret) ==
    IF limited THEN 429
    ELSE IF found = None THEN 500
    ELSE IF secret = DecryptError THEN 500
    ELSE 200

\* ---------------------------------------------------------- generate_otp
\* The body of generate_otp from the rate-limit check to the code (lines
\* 421-482), run against the session's view of the row: status, code, the
\* counter the session holds for the row, and the limiter's new state.
GenerateOutcome(user, config_id, counter_increment, session) ==
    LET r == is_rate_limited(attempts, last_cleanup, now, now,
                             <<"generate", user>>, GenerateMaxRequests,
                             HandlerWindow)
        found == FindConfig(configs, config_id, user)
        cfg == configs[found]
        secret == decrypt_secret(cfg.secret_key, encryption_key)
        loaded == IF found \in DOMAIN session THEN session[found]
                  ELSE cfg.counter
        digest == get_digest_algorithm(cfg.algorithm)
        factor == IF cfg.otp_type = "totp" THEN timecode(now, cfg.interval)
                  ELSE loaded
        status == handler_status(r.limited, found, secret)
    IN  [limiter |-> r,
         status |-> status,
         otp_code |-> IF status = 200
                      THEN generate_otp_code(secret, digest, cfg.digits, factor)
                      ELSE None,
         factor |-> IF status = 200 THEN factor ELSE None,
         read_counter |-> IF status = 200 THEN loaded ELSE None,
         writes |-> status = 200
                    /\ advance_on_generate(cfg.otp_type, counter_increment),
         logs |-> IF r.limited THEN {}
                  ELSE IF found = None
                  THEN generate_log_values(user, config_id, None, None, "none", 0)
                  ELSE generate_log_values(user, config_id, found, secret,
                           cfg.otp_type,
                           remaining_seconds(now, cfg.interval)),
         session |-> IF ~r.limited /\ found # None /\ found \notin DOMAIN session
                     THEN [c \in (DOMAIN session) \cup {found} |->
                              IF c = found THEN cfg.counter ELSE session[c]]
                     ELSE session]

\* POST /otp/generate up to the point where the handler either answers or
\* is about to write the advanced counter.
GenerateBegin(p, config_ids, increments) ==
    \E user \in Callers, config_id \in config_ids,
       counter_increment \in increments :
        LET o == GenerateOutcome(user, config_id, counter_increment, NoSession)
            next_counter == IF o.writes THEN o.read_counter + 1 ELSE None
        IN  /\ Free(p)
            /\ attempts' = o.limiter.attempts
            /\ last_cleanup' = o.limiter.last_cleanup
            /\ IF o.writes
               THEN /\ req' = [req EXCEPT ![p] =
                                 Req("commit_counter", "generate", user,
                                     config_id, o.otp_code, None,
                                     o.read_counter, TRUE, now, next_counter,
                                     <<>>, <<>>, NoSession)]
                    /\ UNCHANGED <<otp_events, audit_logs, resp>>
               ELSE /\ req' = [req EXCEPT ![p] = DoneReq]
                    /\ otp_events' = IF o.status = 200
                                     THEN AddEvent(otp_events, "generate")
                                     ELSE otp_events
                    /\ audit_logs' = IF o.status = 200 THEN audit_logs + 1
                                     ELSE audit_logs
                    /\ resp' = Response("generate", o.status, user, config_id,
                                        o.otp_code, TRUE, None, o.factor,
                                        None, <<>>)
            /\ logged' = o.logs
            /\ UNCHANGED <<now, rl, encryption_key, configs, env_key, calls,
                           users, accepted>>

\* ---------------------------------------------------------- validate_otp
\* The body of validate_otp from the rate-limit check to the verdict
\* (lines 532-591).
ValidateOutcome(user, config_id, otp_code, counter) ==
    LET r == is_rate_limited(attempts, last_cleanup, now, now,
                             <<"validate", user>>, ValidateMaxRequests,
                             HandlerWindow)
        found == FindConfig(configs, config_id, user)
        cfg == configs[found]
        secret == decrypt_secret(cfg.secret_key, encryption_key)
        digest == get_digest_algorithm(cfg.algorithm)
        used == checked_counter(counter, cfg.counter)
        status == handler_status(r.limited, found, secret)
        is_valid == IF status # 200 THEN FALSE
                    ELSE IF cfg.otp_type = "totp"
                    THEN totp_verify(secret, digest, cfg.digits, cfg.interval,
                                     otp_code, now, ValidWindow)
                    ELSE hotp_verify(secret, digest, cfg.digits, otp_code, used)
    IN  [limiter |-> r,
         status |-> status,
         is_valid |-> is_valid,
         used_factor |-> IF status # 200 THEN None
                         ELSE IF cfg.otp_type = "totp"
                         THEN timecode(now, cfg.interval) ELSE used,
         read_counter |-> IF status = 200 THEN cfg.counter ELSE None,
         writes |-> status = 200
                    /\ advance_on_success(cfg.otp_type, is_valid, counter),
         logs |-> IF r.limited THEN {}
                  ELSE IF found = None
                  THEN validate_log_values(config_id, otp_code, None, None,
                                           "none", 0)
                  ELSE validate_log_values(config_id, otp_code, found, secret,
                                           cfg.otp_type, used)]

\* POST /otp/validate up to the point where the handler either answers or
\* is about to write the advanced counter.
ValidateBegin(p, config_ids, counters) ==
    \E user \in Callers, config_id \in config_ids, counter \in counters :
      \E otp_code \in CandidateCodes(config_id) :
        LET o == ValidateOutcome(user, config_id, otp_code, counter)
        IN  /\ Free(p)
            /\ attempts' = o.limiter.attempts
            /\ last_cleanup' = o.limiter.last_cleanup
            /\ IF o.writes
               THEN /\ req' = [req EXCEPT ![p] =
                                 Req("commit_counter", "validate", user,
                                     config_id, otp_code, counter,
                                     o.read_counter, o.is_valid, now, None,
                                     <<>>, <<>>, NoSession)]
                    /\ UNCHANGED <<otp_events, audit_logs, resp>>
               ELSE /\ req' = [req EXCEPT ![p] = DoneReq]
                    /\ otp_events' = IF o.status = 200
                                     THEN AddEvent(otp_events,
                                              ValidateEventType(o.is_valid))
                                     ELSE otp_events
                    /\ audit_logs' = IF o.status = 200 THEN audit_logs + 1
                                     ELSE audit_logs
                    /\ resp' = Response("validate", o.status, user, config_id,
                                        otp_code, o.is_valid, counter,
                                        o.used_factor, None, <<>>)
            /\ logged' = o.logs
            /\ accepted' = IF /\ o.status = 200 /\ o.is_valid
                               /\ counter = None
                               /\ configs[config_id].otp_type = "hotp"
                            THEN accepted \cup {<<config_id, o.used_factor>>}
                            ELSE accepted
            /\ UNCHANGED <<now, rl, encryption_key, configs, env_key, calls,
                           users>>

\* ------------------------------------------- the counter write and the log
\* config.counter += 1; config.updated_at = current_time; db.commit()
\* The session holds the counter it loaded with the row, so the UPDATE
\* stores that value plus one.
CommitCounter(p) ==
    /\ req[p].pc = "commit_counter"
    /\ req[p].config_id \in DOMAIN configs
    /\ configs' = [configs EXCEPT
                     ![req[p].config_id].counter = req[p].read_counter + 1,
                     ![req[p].config_id].updated_at = req[p].current_time]
    /\ req' = [req EXCEPT ![p].pc = "log_event"]
    /\ logged' = IF req[p].kind = "generate" THEN {req[p].read_counter + 1}
                  ELSE {}
    /\ UNCHANGED <<now, attempts, last_cleanup, rl, encryption_key,
                   otp_events, audit_logs, resp, env_key, calls, users,
                   accepted>>

\* db.add(event); db.commit(); audit_logger.log_otp_...; return response
LogEvent(p) ==
    /\ req[p].pc = "log_event"
    /\ req[p].config_id \in DOMAIN configs
    /\ otp_events' = AddEvent(otp_events,
                             IF req[p].kind = "generate" THEN "generate"
                             ELSE ValidateEventType(req[p].is_valid))
    /\ audit_logs' = audit_logs + 1
    /\ resp' = Response(req[p].kind, 200, req[p].user, req[p].config_id,
                        req[p].otp_code, req[p].is_valid, req[p].counter,
                        req[p].read_counter, req[p].next_counter, <<>>)
    /\ req' = [req EXCEPT ![p] = DoneReq]
    /\ logged' = {}
    /\ UNCHANGED <<now, attempts, last_cleanup, rl, encryption_key, configs,
                   env_key, calls, users, accepted>>

\* ----------------------------------------------------- bulk_generate_otp
BulkLists ==
    UNION {[1..n -> RequestConfigIds] : n \in 1..MaxBulk}

\* POST /otp/bulk/generate with a list out of lists: results = []
BulkBeginFrom(p, lists) ==
    \E user \in Callers, config_ids \in lists :
        /\ Free(p)
        /\ req' = [req EXCEPT ![p] =
                     Req("bulk", "bulk", user, 0, None, None, None, FALSE, now,
                         None, config_ids, <<>>, NoSession)]
        /\ UNCHANGED <<now, attempts, last_cleanup, rl, encryption_key,
                       configs, otp_events, audit_logs, resp, env_key,
                       logged, calls, users, accepted>>

BulkBegin(p) == BulkBeginFrom(p, BulkLists)

\* one turn of the loop: generate_otp(MockRequest(), gen_request, ...) with
\* counter_increment=False in the bulk request's own session; after the
\* last config id the handler returns the results.
BulkStep(p) ==
    /\ req[p].pc = "bulk"
    /\ LET config_id == Head(req[p].queue)
           o == GenerateOutcome(req[p].user, config_id, FALSE, req[p].session)
           results == Append(req[p].results,
                             [config_id |-> config_id,
                              success |-> o.status = 200,
                              otp_code |-> o.otp_code])
       IN  /\ attempts' = o.limiter.attempts
           /\ last_cleanup' = o.limiter.last_cleanup
           /\ otp_events' = IF o.status = 200
                            THEN AddEvent(otp_events, "generate")
                            ELSE otp_events
           /\ audit_logs' = IF o.status = 200 THEN audit_logs + 1
                            ELSE audit_logs
           /\ IF Len(req[p].queue) = 1
              THEN /\ req' = [req EXCEPT ![p] = DoneReq]
                   /\ resp' = Response("bulk", 200, req[p].user, 0, None,
                                       FALSE, None, None, None, results)
              ELSE /\ req' = [req EXCEPT ![p].queue = Tail(req[p].queue),
                                         ![p].results = results,
                                         ![p].session = o.session]
                   /\ UNCHANGED resp
    /\ logged' = GenerateOutcome(req[p].user, Head(req[p].queue), FALSE,
                                  req[p].session).logs
    /\ UNCHANGED <<now, rl, encryption_key, configs, env_key, calls, users,
                   accepted>>

Next ==
    \/ Tick
    \/ \E p \in Procs : GenerateBegin(p, RequestConfigIds, BOOLEAN)
    \/ \E p \in Procs : ValidateBegin(p, RequestConfigIds, ExplicitCounters)
    \/ \E p \in Procs : CommitCounter(p)
    \/ \E p \in Procs : LogEvent(p)
    \/ \E p \in Procs : BulkBegin(p)
    \/ \E p \in Procs : BulkStep(p)

Spec == Init /\ [][Next]_vars

\* -------------------------- many requests racing for one HOTP counter
\* NumRacers threads serve generate requests with counter_increment and
\* validate requests without an explicit counter, all on configuration 1.
InitRace == InitWith(Racers)

NextRace ==
    \/ Tick
    \/ \E p \in Racers : GenerateBegin(p, {1}, {TRUE})
    \/ \E p \in Racers : ValidateBegin(p, {1}, {None})
    \/ \E p \in Racers : CommitCounter(p)
    \/ \E p \in Racers : LogEvent(p)

SpecRace == InitRace /\ [][NextRace]_vars

\* ------------------------------------------- the rate limiter on its own
\* Keys, limits and windows of direct calls; the windows are those of the
\* call sites (60 s, 300 s, 3600 s).
RateKeys == {<<"login", k>> : k \in 1..NumKeys}
RateWindows == {60, 300, 3600}
RateInstants == {StartTime + d : d \in {0, 1, 60, 300, 301, 3600, 3601}}

\* rate_limiter.is_rate_limited(key, max_requests=..., window=...)
RateCall ==
    \E key \in RateKeys, max_requests \in 1..MaxLimit, window \in RateWindows,
       sweep_time \in SecondReads(now) :
        LET r == is_rate_limited(attempts, last_cleanup, now, sweep_time, key,
                                 max_requests, window)
        IN  /\ attempts' = r.attempts
            /\ last_cleanup' = r.last_cleanup
            /\ rl' = Call(key, max_requests, window, r.limited)
            /\ now' = r.clock
            /\ UNCHANGED <<encryption_key, configs, otp_events,
                           audit_logs, req, resp, env_key, logged, calls,
                           users, accepted>>

\* time passes between calls
Elapse ==
    \E t \in RateInstants :
        /\ t > now
        /\ now' = t
        /\ UNCHANGED <<attempts, last_cleanup, rl, encryption_key, configs,
                       otp_events, audit_logs, req, resp, env_key, logged,
                       calls, users, accepted>>

NextRate == RateCall \/ Elapse

SpecRate == Init /\ [][NextRate]_vars

\* ------------------------------- the engine on rows of any algorithm name
\* otp_configs.algorithm is a String column; the names a row may hold
AlgorithmNames == {"sha1", "sha256", "sha512", "md5", "sha3_256", ""}

\* the rows of user 1 hold any of these names
InitEngine ==
    /\ InitWith(Procs)!1 /\ InitWith(Procs)!2 /\ InitWith(Procs)!3
    /\ InitWith(Procs)!4 /\ InitWith(Procs)!5
    /\ \E hotp_algorithm \in AlgorithmNames, totp_algorithm \in AlgorithmNames :
          configs = [InitConfigs EXCEPT ![1].algorithm = hotp_algorithm,
                                        ![2].algorithm = totp_algorithm]
    /\ otp_events = NoEvents
    /\ audit_logs = 0
    /\ req = [p \in Procs |-> IdleReq]
    /\ resp = NoResp
    /\ env_key = CurrentKey
    /\ logged = {}
    /\ calls = <<>>
    /\ users = InitUsers
    /\ accepted = {}

NextEngine ==
    \/ Tick
    \/ \E p \in Procs : GenerateBegin(p, {1, 2}, BOOLEAN)
    \/ \E p \in Procs : ValidateBegin(p, {1, 2}, {None})
    \/ \E p \in Procs : CommitCounter(p)
    \/ \E p \in Procs : LogEvent(p)

SpecEngine == InitEngine /\ [][NextEngine]_vars

\* ------------------------------------- a fallible store and audit sink
\* db.commit() of the counter write raises: `except Exception` answers 500;
\* the row keeps its counter and no event is written.
CommitCounterFails(p) ==
    /\ req[p].pc = "commit_counter"
    /\ resp' = Response(req[p].kind, 500, req[p].user, req[p].config_id,
                        None, FALSE, None, None, None, <<>>)
    /\ req' = [req EXCEPT ![p] = DoneReq]
    /\ logged' = {}
    /\ UNCHANGED <<now, attempts, last_cleanup, rl, encryption_key, configs,
                   otp_events, audit_logs, env_key, calls, users, accepted>>

\* db.add(event); db.commit() raises: `except Exception` answers 500 after
\* the counter was written; no event and no audit row.
EventWriteFails(p) ==
    /\ req[p].pc = "log_event"
    /\ resp' = Response(req[p].kind, 500, req[p].user, req[p].config_id,
                        None, FALSE, None, None, None, <<>>)
    /\ req' = [req EXCEPT ![p] = DoneReq]
    /\ logged' = {}
    /\ UNCHANGED <<now, attempts, last_cleanup, rl, encryption_key, configs,
                   otp_events, audit_logs, env_key, calls, users, accepted>>

\* the event is written, then db.commit() inside AuditLogger.log_event
\* raises: log_event prints the error and rolls back, and the handler
\* returns its response as if the audit row had been written.
LogEventAuditFails(p) ==
    /\ req[p].pc = "log_event"
    /\ otp_events' = AddEvent(otp_events,
                             IF req[p].kind = "generate" THEN "generate"
                             ELSE ValidateEventType(req[p].is_valid))
    /\ resp' = Response(req[p].kind, 200, req[p].user, req[p].config_id,
                        req[p].otp_code, req[p].is_valid, req[p].counter,
                        req[p].read_counter, req[p].next_counter, <<>>)
    /\ req' = [req EXCEPT ![p] = DoneReq]
    /\ logged' = {}
    /\ UNCHANGED <<now, attempts, last_cleanup, rl, encryption_key, configs,
                   audit_logs, env_key, calls, users, accepted>>

NextFaults ==
    \/ \E p \in Procs : GenerateBegin(p, {1}, {TRUE})
    \/ \E p \in Procs : ValidateBegin(p, {1}, {None})
    \/ \E p \in Procs : CommitCounter(p)
    \/ \E p \in Procs : CommitCounterFails(p)
    \/ \E p \in Procs : LogEvent(p)
    \/ \E p \in Procs : EventWriteFails(p)
    \/ \E p \in Procs : LogEventAuditFails(p)

SpecFaults == Init /\ [][NextFaults]_vars

\* ----------------------- secrets from creation to use, across restarts
\* config ids of the requests: two rows of the caller and the id the next
\* created row gets
CipherConfigIds == {1, 2, MaxConfigs}

\* every key a blob can have been made under
CipherKeys == FernetKeys \cup GeneratedKeys

\* The service after its first start: the environment holds any of
\* EnvValues, and the rows present were encrypted under the key in use.
InitCipher ==
    /\ InitWith(Procs)!1 /\ InitWith(Procs)!2 /\ InitWith(Procs)!3
    /\ InitWith(Procs)!4
    /\ \E env \in EnvValues :
          /\ env_key = env
          /\ encryption_key = get_or_create_encryption_key(env, "G1")
    /\ configs = [c \in ConfigIds |->
                    [InitConfigs[c] EXCEPT !.secret_key =
                        encrypt_secret(random_base32(c), encryption_key)]]
    /\ otp_events = NoEvents
    /\ audit_logs = 0
    /\ req = [p \in Procs |-> IdleReq]
    /\ resp = NoResp
    /\ logged = {}
    /\ calls = <<>>
    /\ users = InitUsers
    /\ accepted = {}

\* POST /otp/configs/: the row is committed with the encrypted secret; the
\* audit call that follows, audit_logger.log_config_creation, names a
\* method AuditLogger does not have, so the handler ends in an unhandled
\* AttributeError (a 500 response) after the commit.
CreateConfig(p) ==
    \E user \in Callers, name \in 1..MaxConfigs, otp_type \in {"totp", "hotp"} :
        LET r == is_rate_limited(attempts, last_cleanup, now, now,
                                 <<"config_create", user>>, CreateMaxRequests,
                                 CreateWindow)
            duplicate == \E c \in DOMAIN configs :
                            configs[c].user_id = user /\ configs[c].name = name
            id == Cardinality(DOMAIN configs) + 1
            secret_key == random_base32(id)
            row == [user_id |-> user,
                    name |-> name,
                    otp_type |-> otp_type,
                    algorithm |-> "sha1",
                    digits |-> DefaultDigits,
                    interval |-> DefaultInterval,
                    counter |-> 0,
                    secret_key |-> encrypt_secret(secret_key, encryption_key),
                    is_active |-> TRUE,
                    updated_at |-> now]
            status == IF r.limited THEN 429 ELSE IF duplicate THEN 400 ELSE 500
        IN  /\ Free(p)
            /\ Cardinality(DOMAIN configs) < MaxConfigs
            /\ attempts' = r.attempts
            /\ last_cleanup' = r.last_cleanup
            /\ configs' = IF status = 500
                          THEN [c \in (DOMAIN configs) \cup {id} |->
                                   IF c = id THEN row ELSE configs[c]]
                          ELSE configs
            /\ resp' = Response("create", status, user, 0, None, FALSE, None,
                                None, None, <<>>)
            /\ req' = [req EXCEPT ![p] = DoneReq]
            /\ logged' = {}
            /\ UNCHANGED <<now, rl, encryption_key, otp_events, audit_logs,
                           env_key, calls, users, accepted>>

\* schemas.OTPConfigResponse of a row
ConfigResponse(config_id, row) ==
    [config_id |-> config_id, user_id |-> row.user_id,
     counter |-> row.counter, secret_key |-> row.secret_key]

\* GET /otp/configs/: the caller's rows as OTPConfigResponse, secret_key
\* column included
GetConfigs(p) ==
    \E user \in Callers :
        LET ids == SelectSeq([c \in 1..MaxConfigs |-> c],
                             LAMBDA c : FindOwnConfig(configs, c, user) # None)
        IN  /\ Free(p)
            /\ resp' = Response("list", 200, user, 0, None, FALSE, None, None,
                                None,
                                [i \in 1..Len(ids) |->
                                    ConfigResponse(ids[i], configs[ids[i]])])
            /\ req' = [req EXCEPT ![p] = DoneReq]
            /\ logged' = {}
            /\ UNCHANGED <<now, attempts, last_cleanup, rl, encryption_key,
                           configs, otp_events, audit_logs, env_key, calls,
                           users, accepted>>

\* the stored text of one of the caller's rows carries this many changes
Altered(blob) == ~blob.intact \/ blob.slack # 0

\* The secret_key column of a row is changed in the database: either bytes
\* of the Fernet token change, or only text that urlsafe_b64decode ignores.
Tamper ==
    \E c \in DOMAIN configs, how \in {"token", "slack"} :
        /\ configs[c].user_id \in Callers
        /\ \A d \in DOMAIN configs : ~Altered(configs[d].secret_key)
        /\ configs' = [configs EXCEPT ![c].secret_key =
                          IF how = "token" THEN [@ EXCEPT !.intact = FALSE]
                          ELSE [@ EXCEPT !.slack = 1]]
        /\ UNCHANGED <<now, attempts, last_cleanup, rl, encryption_key,
                       otp_events, audit_logs, req, resp, env_key, logged,
                       calls, users, accepted>>

\* The process starts again with the same environment and database:
\* security_manager = SecurityManager() and rate_limiter = RateLimiter()
\* run anew.  A generated key differs from every key generated before.
Restart ==
    LET unused == {k \in GeneratedKeys :
                      /\ k # encryption_key
                      /\ \A c \in DOMAIN configs : configs[c].secret_key.key # k}
    IN  /\ \A p \in DOMAIN req : req[p].pc \in {"idle", "done"}
        /\ unused # {}
        /\ encryption_key' =
              get_or_create_encryption_key(env_key,
                                           CHOOSE k \in unused : TRUE)
        /\ attempts' = [k \in {} |-> <<>>]
        /\ last_cleanup' = now
        /\ logged' = {}
        /\ UNCHANGED <<now, rl, configs, otp_events, audit_logs, req, resp,
                       env_key, calls, users, accepted>>

NextCipher ==
    \/ Tick
    \/ \E p \in Procs : CreateConfig(p)
    \/ \E p \in Procs : GetConfigs(p)
    \/ \E p \in Procs : GenerateBegin(p, CipherConfigIds, {FALSE})
    \/ \E p \in Procs : ValidateBegin(p, CipherConfigIds, {0})
    \/ Tamper
    \/ Restart

SpecCipher == InitCipher /\ [][NextCipher]_vars

\* ------------------------------- one user's requests on every configuration
\* The ids that the generate, validate and bulk requests of this
\* specification name: the caller's HOTP row, the row of the other user and
\* an id without a row.  Every row of otp_events then belongs to row 1.
IsolationConfigIds == {1, 3, MissingConfigId}

IsolationBulkLists ==
    UNION {[1..n -> IsolationConfigIds] : n \in 1..MaxBulk}

\* GET /otp/configs/{config_id}
GetConfig(p, config_ids) ==
    \E user \in Callers, config_id \in config_ids :
        LET found == FindOwnConfig(configs, config_id, user)
        IN  /\ Free(p)
            /\ resp' = IF found = None
                       THEN Response("get", 404, user, config_id, None, FALSE,
                                     None, None, None, <<>>)
                       ELSE Response("get", 200, user, config_id, None, FALSE,
                                     None, None, None,
                                     <<ConfigResponse(found, configs[found])>>)
            /\ req' = [req EXCEPT ![p] = DoneReq]
            /\ logged' = {}
            /\ UNCHANGED <<now, attempts, last_cleanup, rl, encryption_key,
                           configs, otp_events, audit_logs, env_key, calls,
                           users, accepted>>

\* DELETE /otp/configs/{config_id}: db.delete(config); db.commit() removes
\* the row and, through the cascade of OTPConfig.events, its rows of
\* otp_events (all of them when the row is one of with_events, none
\* otherwise).  The audit call that follows names a method AuditLogger does
\* not have: the handler ends in an unhandled AttributeError after the
\* commit, a 500 response.
DeleteConfig(p, config_ids, with_events) ==
    \E user \in Callers, config_id \in config_ids :
        LET found == FindOwnConfig(configs, config_id, user)
        IN  /\ Free(p)
            /\ configs' = IF found = None THEN configs
                          ELSE [c \in (DOMAIN configs) \ {found} |-> configs[c]]
            /\ otp_events' = IF found \in with_events THEN NoEvents
                             ELSE otp_events
            /\ resp' = Response("delete", IF found = None THEN 404 ELSE 500,
                                user, config_id, None, FALSE, None, None, None,
                                <<>>)
            /\ req' = [req EXCEPT ![p] = DoneReq]
            /\ logged' = {}
            /\ UNCHANGED <<now, attempts, last_cleanup, rl, encryption_key,
                           audit_logs, env_key, calls, users, accepted>>

\* config.counter += 1; db.commit() for a row another request deleted in
\* the meantime: the UPDATE matches no row, the session raises
\* StaleDataError and `except Exception` answers 500.
CommitCounterStale(p) ==
    /\ req[p].pc = "commit_counter"
    /\ req[p].config_id \notin DOMAIN configs
    /\ resp' = Response(req[p].kind, 500, req[p].user, req[p].config_id,
                        None, FALSE, None, None, None, <<>>)
    /\ req' = [req EXCEPT ![p] = DoneReq]
    /\ logged' = {}
    /\ UNCHANGED <<now, attempts, last_cleanup, rl, encryption_key, configs,
                   otp_events, audit_logs, env_key, calls, users, accepted>>

\* OTPEvent(config_id=config.id, ...); db.commit() for a row another request
\* deleted after the counter write: the reload of the expired row or the
\* foreign key of otp_events raises and `except Exception` answers 500.
LogEventStale(p) ==
    /\ req[p].pc = "log_event"
    /\ req[p].config_id \notin DOMAIN configs
    /\ resp' = Response(req[p].kind, 500, req[p].user, req[p].config_id,
                        None, FALSE, None, None, None, <<>>)
    /\ req' = [req EXCEPT ![p] = DoneReq]
    /\ logged' = {}
    /\ UNCHANGED <<now, attempts, last_cleanup, rl, encryption_key, configs,
                   otp_events, audit_logs, env_key, calls, users, accepted>>

NextIsolation ==
    \/ \E p \in Procs : GenerateBegin(p, IsolationConfigIds, BOOLEAN)
    \/ \E p \in Procs : ValidateBegin(p, IsolationConfigIds, ExplicitCounters)
    \/ \E p \in Procs : CommitCounter(p)
    \/ \E p \in Procs : CommitCounterStale(p)
    \/ \E p \in Procs : LogEvent(p)
    \/ \E p \in Procs : LogEventStale(p)
    \/ \E p \in Procs : BulkBeginFrom(p, IsolationBulkLists)
    \/ \E p \in Procs : BulkStep(p)
    \/ \E p \in Procs : GetConfig(p, RequestConfigIds)
    \/ \E p \in Procs : GetConfigs(p)
    \/ \E p \in Procs : DeleteConfig(p, RequestConfigIds, {1})

SpecIsolation == Init /\ [][NextIsolation]_vars

\* ------------------------------ one caller sending request after request
\* the pool thread that served a request takes the next one
Recycle(p) ==
    /\ req[p].pc = "done"
    /\ req' = [req EXCEPT ![p] = IdleReq]
    /\ UNCHANGED <<now, attempts, last_cleanup, rl, encryption_key, configs,
                   otp_events, audit_logs, resp, env_key, logged, calls,
                   users, accepted>>

\* a single thread serves the requests one after the other
InitGate == InitWith({1})

NextGate ==
    \/ GenerateBegin(1, {1}, {TRUE})
    \/ ValidateBegin(1, {1}, {None})
    \/ CommitCounter(1)
    \/ LogEvent(1)
    \/ Recycle(1)

SpecGate == InitGate /\ [][NextGate]_vars

\* --------------------- requests on one HOTP configuration, never overlapping
\* One thread serves MaxServed requests on configuration 1, each after the
\* one before has been answered: generations with and without
\* counter_increment, validations with and without an explicit counter.
ServeGenerate ==
    /\ EventCount < MaxServed
    /\ GenerateBegin(1, {1}, BOOLEAN)

ServeValidate ==
    /\ EventCount < MaxServed
    /\ ValidateBegin(1, {1}, ExplicitCounters)

NextSerial ==
    \/ ServeGenerate
    \/ ServeValidate
    \/ CommitCounter(1)
    \/ LogEvent(1)
    \/ Recycle(1)

SpecSerial == InitGate /\ [][NextSerial]_vars

\* ------------------------------------------- the lock of the rate limiter
\* the threads inside `with self.lock:` of is_rate_limited
LockHolders == {p \in DOMAIN req : req[p].pc = "in_lock"}

\* a login request of some user name reaches `with self.lock:`
LimiterEnter(p) ==
    \E username \in 1..NumKeys :
        /\ req[p].pc = "idle"
        /\ req' = [req EXCEPT ![p] =
                     Req("at_lock", "limiter", username, 0, None, None, None,
                         FALSE, now, None, <<>>, <<>>, NoSession)]
        /\ UNCHANGED <<now, attempts, last_cleanup, rl, encryption_key,
                       configs, otp_events, audit_logs, resp, env_key, logged,
                       calls, users, accepted>>

\* threading.Lock.__enter__: acquire() returns once no thread holds the
\* lock; until then the caller stays where it is
LockAcquire(p) ==
    /\ req[p].pc = "at_lock"
    /\ LockHolders = {}
    /\ req' = [req EXCEPT ![p].pc = "in_lock"]
    /\ UNCHANGED <<now, attempts, last_cleanup, rl, encryption_key, configs,
                   otp_events, audit_logs, resp, env_key, logged, calls,
                   users, accepted>>

\* the body of is_rate_limited, clock read included; leaving the with block
\* releases the lock
LimiterBody(p) ==
    /\ req[p].pc = "in_lock"
    /\ LET key == <<"login", req[p].user>>
           r == is_rate_limited(attempts, last_cleanup, now, now, key,
                                LoginMaxRequests, LoginWindow)
       IN  /\ attempts' = r.attempts
           /\ last_cleanup' = r.last_cleanup
           /\ rl' = Call(key, LoginMaxRequests, LoginWindow, r.limited)
    /\ req' = [req EXCEPT ![p] = DoneReq]
    /\ UNCHANGED <<now, encryption_key, configs, otp_events, audit_logs,
                   resp, env_key, logged, calls, users, accepted>>

NextLock ==
    \/ \E p \in Procs : LimiterEnter(p)
    \/ \E p \in Procs : LockAcquire(p)
    \/ \E p \in Procs : LimiterBody(p)
    \/ \E p \in Procs : Recycle(p)

SpecLock == Init /\ [][NextLock]_vars

\* ------------------------------------ repeated calls for one key and limit
\* The same key, max_requests and window are used call after call, as one
\* call site does for one user; calls keeps the time and verdict of each.
BurstCall ==
    \E key \in RateKeys, max_requests \in 1..MaxLimit, window \in RateWindows,
       sweep_time \in SecondReads(now) :
        LET r == is_rate_limited(attempts, last_cleanup, now, sweep_time, key,
                                 max_requests, window)
        IN  /\ Len(calls) < MaxCalls
            /\ calls # <<>> => rl = Call(key, max_requests, window, rl.limited)
            /\ attempts' = r.attempts
            /\ last_cleanup' = r.last_cleanup
            /\ rl' = Call(key, max_requests, window, r.limited)
            /\ calls' = Append(calls, [at |-> now, limited |-> r.limited])
            /\ now' = r.clock
            /\ UNCHANGED <<encryption_key, configs, otp_events,
                           audit_logs, req, resp, env_key, logged, users,
                           accepted>>

NextBurst == BurstCall \/ Elapse

SpecBurst == Init /\ [][NextBurst]_vars

\* -------------------------------------- the limiter next to one that never sweeps
\* is_rate_limited of a limiter whose _cleanup_old_entries is never run
is_rate_limited_no_sweep(att, lc, current_time, sweep_time, key, max_requests, window) ==
    LET old == IF key \in DOMAIN att THEN att[key] ELSE <<>>
        recent == NewerThan(old, current_time - window)
        limited == Len(recent) >= max_requests
        stored == IF limited THEN recent ELSE Append(recent, current_time)
    IN  [attempts |-> [k \in (DOMAIN att) \cup {key} |->
                          IF k = key THEN stored ELSE att[k]],
         last_cleanup |-> lc,
         limited |-> limited,
         clock |-> current_time]

\* the result of the n-th call of history, made on a limiter that never
\* sweeps and has served the calls before it
RECURSIVE NoSweepCall(_, _)
NoSweepCall(history, n) ==
    LET before == IF n = 1 THEN << >>
                  ELSE NoSweepCall(history, n - 1).attempts
        c == history[n]
    IN  is_rate_limited_no_sweep(before, StartTime, c.at, c.at, c.key,
                                 c.max_requests, c.window)

\* a direct call with any key, limit and window; calls keeps its arguments,
\* the time of its first clock read and its verdict
SweepCall ==
    \E key \in RateKeys, max_requests \in 1..MaxLimit, window \in RateWindows,
       sweep_time \in SecondReads(now) :
        LET r == is_rate_limited(attempts, last_cleanup, now, sweep_time, key,
                                 max_requests, window)
        IN  /\ Len(calls) < MaxHistory
            /\ attempts' = r.attempts
            /\ last_cleanup' = r.last_cleanup
            /\ rl' = Call(key, max_requests, window, r.limited)
            /\ calls' = Append(calls, [at |-> now, key |-> key,
                                       max_requests |-> max_requests,
                                       window |-> window,
                                       limited |-> r.limited])
            /\ now' = r.clock
            /\ UNCHANGED <<encryption_key, configs, otp_events,
                           audit_logs, req, resp, env_key, logged, users,
                           accepted>>

NextSweep == SweepCall \/ Elapse

SpecSweep == Init /\ [][NextSweep]_vars

\* ------------------------------------------------------------------ login
\* auth.check_account_lockout: the row is locked at current_time
check_account_lockout(account_locked_until, current_time) ==
    account_locked_until # None /\ account_locked_until > current_time

\* authenticate_user after a wrong password, locking only on the attempt
\* that reaches the limit
lock_after_failure_at_limit_only(failed_login_attempts, account_locked_until, current_time) ==
    IF failed_login_attempts = MAX_FAILED_ATTEMPTS
    THEN current_time + ACCOUNT_LOCKOUT_MINUTES * 60
    ELSE account_locked_until

\* authenticate_user after a wrong password (auth.py 81-82):
\* account_locked_until for the incremented failed_login_attempts
lock_after_failure(failed_login_attempts, account_locked_until, current_time) ==
    IF failed_login_attempts >= MAX_FAILED_ATTEMPTS
    THEN current_time + ACCOUNT_LOCKOUT_MINUTES * 60
    ELSE account_locked_until

\* auth.verify_totp_code: pyotp.TOTP(secret).verify(code) at for_time, with
\* pyotp's defaults (SHA-1, 6 digits, 30 s, valid_window 0)
verify_totp_code(secret, code, for_time) ==
    totp_verify(secret, "sha1", DefaultDigits, DefaultInterval, code,
                for_time, 0)

\* the second-factor part of login that hands out tokens for any code
mfa_outcome_unverified(mfa_enabled, mfa_secret, mfa_code, for_time) ==
    IF ~mfa_enabled THEN "tokens"
    ELSE IF mfa_code = None THEN "mfa_required"
    ELSE "tokens"

\* login_for_access_token, lines 221-241: what the second-factor part of
\* the handler leads to.  pyotp.TOTP(None) raises; `except Exception`
\* re-raises it after an audit row.
mfa_outcome(mfa_enabled, mfa_secret, mfa_code, for_time) ==
    IF ~mfa_enabled THEN "tokens"
    ELSE IF mfa_code = None THEN "mfa_required"
    ELSE IF mfa_secret = None THEN "error"
    ELSE IF verify_totp_code(mfa_secret, mfa_code, for_time) THEN "tokens"
    ELSE "invalid_mfa_code"

\* auth.generate_mfa_secret(): pyotp.random_base32(), a secret per call
generate_mfa_secret(n) == 20 + n

\* schemas.Token
Token(access_token, refresh_token, mfa_required) ==
    [access_token |-> access_token, refresh_token |-> refresh_token,
     mfa_required |-> mfa_required]

\* the response of POST /token
LoginResponse(status, user, tokens) ==
    Response("login", status, user, 0, None, FALSE, None, None, None, tokens)

\* locals of a login between the load of the row and the response: the
\* password's verdict, the mfa_code of the form and the values of
\* failed_login_attempts and account_locked_until its session loaded
LoginReq(pc, user, password_ok, mfa_code, failed_login_attempts, account_locked_until) ==
    Req(pc, "login", user, 0, mfa_code, account_locked_until,
        failed_login_attempts, password_ok, 0, None, <<>>, <<>>, NoSession)

\* usernames of login forms: the account and a name without a row
Usernames == Callers \cup {1 + Cardinality(Callers)}

\* mfa_code of a login form: none, or the code of the current time step of
\* the account's secret or of the step before
FormCodes(secret, for_time) ==
    LET own == IF secret = None THEN generate_mfa_secret(0) ELSE secret
        step == timecode(for_time, DefaultInterval)
    IN  {None,
         generate_otp_code(own, "sha1", DefaultDigits, step),
         generate_otp_code(own, "sha1", DefaultDigits, step - 1)}

\* POST /token from the rate-limit check to verify_password (main.py
\* 204-218, auth.py 62-76): 429 with an audit row when limited, 401 for an
\* unknown name, 423 for a locked row; otherwise the session holds the row
\* and the password has its verdict.  The limiter's window of 300 s ends
\* long before the hour of its sweep, whose own clock read has no bearing
\* on this call.
LoginBegin(p) ==
    \E username \in Usernames, password_ok \in BOOLEAN :
    \E mfa_code \in FormCodes(IF username \in DOMAIN users
                               THEN users[username].mfa_secret ELSE None, now) :
        LET r == is_rate_limited(attempts, last_cleanup, now, now,
                                 <<"login", username>>, LoginMaxRequests,
                                 LoginWindow)
            known == username \in DOMAIN users
            user == users[username]
            locked == known /\ check_account_lockout(
                                  user.account_locked_until, now)
            status == IF r.limited THEN 429
                      ELSE IF ~known THEN 401
                      ELSE IF locked THEN 423
                      ELSE 200
        IN  /\ Free(p)
            /\ attempts' = r.attempts
            /\ last_cleanup' = r.last_cleanup
            /\ audit_logs' = IF r.limited THEN audit_logs + 1 ELSE audit_logs
            /\ resp' = IF status = 200 THEN resp
                       ELSE LoginResponse(status, username, <<>>)
            /\ req' = [req EXCEPT ![p] =
                          IF status # 200 THEN DoneReq
                          ELSE LoginReq(IF password_ok THEN "login_accept"
                                        ELSE "login_reject",
                                        username, password_ok, mfa_code,
                                        user.failed_login_attempts,
                                        user.account_locked_until)]
            /\ logged' = {}
            /\ UNCHANGED <<now, rl, encryption_key, configs, otp_events,
                           env_key, calls, users, accepted>>

\* authenticate_user after a wrong password (auth.py 77-91):
\* user.failed_login_attempts += 1 on the value the session loaded, the
\* lock when the limit is reached, db.commit(), 401
LoginReject(p) ==
    /\ req[p].pc = "login_reject"
    /\ req[p].read_counter < MaxFailures
    /\ LET failed == req[p].read_counter + 1
       IN  users' = [users EXCEPT
                       ![req[p].user].failed_login_attempts = failed,
                       ![req[p].user].account_locked_until =
                           lock_after_failure(failed, @, now)]
    /\ resp' = LoginResponse(401, req[p].user, <<>>)
    /\ req' = [req EXCEPT ![p] = DoneReq]
    /\ logged' = {}
    /\ UNCHANGED <<now, attempts, last_cleanup, rl, encryption_key, configs,
                   otp_events, audit_logs, env_key, calls, accepted>>

\* authenticate_user after the right password (auth.py 93-99):
\* failed_login_attempts = 0, account_locked_until = None, last_login,
\* db.commit().  The UPDATE carries the attributes whose new value differs
\* from the one the session loaded; the others keep what the row holds.
LoginAccept(p) ==
    /\ req[p].pc = "login_accept"
    /\ users' = [users EXCEPT
                    ![req[p].user].failed_login_attempts =
                        IF req[p].read_counter # 0 THEN 0 ELSE @,
                    ![req[p].user].account_locked_until =
                        IF req[p].counter # None THEN None ELSE @,
                    ![req[p].user].last_login = now]
    /\ req' = [req EXCEPT ![p].pc = "login_mfa"]
    /\ logged' = {}
    /\ UNCHANGED <<now, attempts, last_cleanup, rl, encryption_key, configs,
                   otp_events, audit_logs, resp, env_key, calls, accepted>>

\* login_for_access_token, lines 221-271, on the row as the session reloads
\* it after the commit: the second factor, then the tokens and the audit
\* row.  create_user_session is a coroutine that is never awaited: no row
\* of user_sessions is written.
LoginRespond(p) ==
    /\ req[p].pc = "login_mfa"
    /\ LET user == users[req[p].user]
           outcome == mfa_outcome(user.mfa_enabled, user.mfa_secret,
                                  req[p].otp_code, now)
       IN  /\ resp' =
                 IF outcome = "tokens"
                 THEN LoginResponse(200, req[p].user,
                                    <<Token("access", "refresh", FALSE)>>)
                 ELSE IF outcome = "mfa_required"
                 THEN LoginResponse(200, req[p].user, <<Token("", "", TRUE)>>)
                 ELSE IF outcome = "error"
                 THEN LoginResponse(500, req[p].user, <<>>)
                 ELSE LoginResponse(401, req[p].user, <<>>)
           /\ audit_logs' = IF outcome = "mfa_required" THEN audit_logs
                            ELSE audit_logs + 1
    /\ req' = [req EXCEPT ![p] = DoneReq]
    /\ logged' = {}
    /\ UNCHANGED <<now, attempts, last_cleanup, rl, encryption_key, configs,
                   otp_events, env_key, calls, users, accepted>>

\* instants around the end of a lock set at the start
LoginInstants ==
    {StartTime + d : d \in {0, ACCOUNT_LOCKOUT_MINUTES * 60 - 1,
                            ACCOUNT_LOCKOUT_MINUTES * 60}}

LoginElapse ==
    \E t \in LoginInstants :
        /\ t > now
        /\ now' = t
        /\ UNCHANGED <<attempts, last_cleanup, rl, encryption_key, configs,
                       otp_events, audit_logs, req, resp, env_key, logged,
                       calls, users, accepted>>

\* The account at the start: after no failed login or after four of them,
\* without a second factor or with one enrolled and verified.
LoginUsers ==
    {[u \in Callers |->
         [NewUser EXCEPT !.failed_login_attempts = failed,
                         !.mfa_enabled = enrolled,
                         !.mfa_secret = IF enrolled THEN generate_mfa_secret(u)
                                        ELSE None]] :
       failed \in {0, MAX_FAILED_ATTEMPTS - 1}, enrolled \in BOOLEAN}

InitLogin ==
    /\ now = StartTime
    /\ attempts = [k \in {} |-> <<>>]
    /\ last_cleanup = StartTime
    /\ rl = NoCall
    /\ encryption_key = CurrentKey
    /\ configs = InitConfigs
    /\ otp_events = NoEvents
    /\ audit_logs = 0
    /\ req = [p \in Racers |-> IdleReq]
    /\ resp = NoResp
    /\ env_key = CurrentKey
    /\ logged = {}
    /\ calls = <<>>
    /\ users \in LoginUsers
    /\ accepted = {}

NextLogin ==
    \/ LoginElapse
    \/ \E p \in Racers : LoginBegin(p)
    \/ \E p \in Racers : LoginReject(p)
    \/ \E p \in Racers : LoginAccept(p)
    \/ \E p \in Racers : LoginRespond(p)

SpecLogin == InitLogin /\ [][NextLogin]_vars

\* ------------------------------------------------------- the second factor
\* locals of a request on /users/me/mfa/...: the mfa_code of its body and
\* the mfa_enabled and mfa_secret of current_user as the session loaded them
MfaReq(pc, kind, user, mfa_code, mfa_enabled, mfa_secret) ==
    Req(pc, kind, user, 0, mfa_code, None, None, mfa_enabled, 0, mfa_secret,
        <<>>, <<>>, NoSession)

MfaResponse(kind, status, user) ==
    Response(kind, status, user, 0, None, FALSE, None, None, None, <<>>)

\* Depends(get_current_user) of the three handlers: the session of the
\* request loads the caller's row (no account of this specification is
\* locked); the handler then runs on a pool thread with that object.
GetCurrentUser(p) ==
    \E user \in Callers,
       kind \in {"mfa_enable", "mfa_verify", "mfa_disable"} :
    \E mfa_code \in IF kind = "mfa_verify"
                     THEN FormCodes(users[user].mfa_secret, now) \ {None}
                     ELSE {None} :
        /\ Free(p)
        /\ req' = [req EXCEPT ![p] =
                      MfaReq("current_user", kind, user, mfa_code,
                             users[user].mfa_enabled, users[user].mfa_secret)]
        /\ logged' = {}
        /\ UNCHANGED <<now, attempts, last_cleanup, rl, encryption_key,
                       configs, otp_events, audit_logs, resp, env_key, calls,
                       users, accepted>>

\* POST /users/me/mfa/enable: 400 when current_user.mfa_enabled; otherwise
\* current_user.mfa_secret = generate_mfa_secret(); db.commit()
enable_mfa(p) ==
    \E n \in 1..MaxSecrets :
        /\ req[p].pc = "current_user" /\ req[p].kind = "mfa_enable"
        /\ users' = IF req[p].is_valid THEN users
                    ELSE [users EXCEPT ![req[p].user].mfa_secret =
                                           generate_mfa_secret(n)]
        /\ resp' = MfaResponse("mfa_enable",
                               IF req[p].is_valid THEN 400 ELSE 200,
                               req[p].user)
        /\ req' = [req EXCEPT ![p] = DoneReq]
        /\ logged' = {}
        /\ UNCHANGED <<now, attempts, last_cleanup, rl, encryption_key,
                       configs, otp_events, audit_logs, env_key, calls,
                       accepted>>

\* POST /users/me/mfa/verify: 400 without a secret or with a code that
\* verify_totp_code rejects; otherwise current_user.mfa_enabled = True;
\* db.commit(), an UPDATE of mfa_enabled when the session loaded it as
\* False and no statement when it loaded True.  The audit call that
\* follows names a method AuditLogger does not have: the handler ends in
\* an unhandled AttributeError after the commit, a 500 response.
verify_mfa(p) ==
    /\ req[p].pc = "current_user" /\ req[p].kind = "mfa_verify"
    /\ LET verified == /\ req[p].next_counter # None
                       /\ verify_totp_code(req[p].next_counter,
                                           req[p].otp_code, now)
       IN  /\ users' = IF verified /\ ~req[p].is_valid
                       THEN [users EXCEPT ![req[p].user].mfa_enabled = TRUE]
                       ELSE users
           /\ resp' = MfaResponse("mfa_verify",
                                  IF verified THEN 500 ELSE 400, req[p].user)
    /\ req' = [req EXCEPT ![p] = DoneReq]
    /\ logged' = {}
    /\ UNCHANGED <<now, attempts, last_cleanup, rl, encryption_key, configs,
                   otp_events, audit_logs, env_key, calls, accepted>>

\* POST /users/me/mfa/disable: 400 when not current_user.mfa_enabled;
\* otherwise mfa_enabled = False; mfa_secret = None; db.commit(), an UPDATE
\* of the attributes that differ from what the session loaded.  The audit
\* call that follows names a method AuditLogger does not have: a 500
\* response after the commit.
disable_mfa(p) ==
    /\ req[p].pc = "current_user" /\ req[p].kind = "mfa_disable"
    /\ users' = IF ~req[p].is_valid THEN users
                ELSE [users EXCEPT
                        ![req[p].user].mfa_enabled = FALSE,
                        ![req[p].user].mfa_secret =
                            IF req[p].next_counter # None THEN None ELSE @]
    /\ resp' = MfaResponse("mfa_disable",
                           IF req[p].is_valid THEN 500 ELSE 400, req[p].user)
    /\ req' = [req EXCEPT ![p] = DoneReq]
    /\ logged' = {}
    /\ UNCHANGED <<now, attempts, last_cleanup, rl, encryption_key, configs,
                   otp_events, audit_logs, env_key, calls, accepted>>

InitMfa == InitWith(Racers)

NextMfa ==
    \/ \E p \in Racers : GetCurrentUser(p)
    \/ \E p \in Racers : enable_mfa(p)
    \/ \E p \in Racers : verify_mfa(p)
    \/ \E p \in Racers : disable_mfa(p)
    \/ \E p \in Racers : Recycle(p)

SpecMfa == InitMfa /\ [][NextMfa]_vars

\* =================================================================== claims
Threads == DOMAIN req

\* thread p takes a step
Moves(p) == req'[p] # req[p]

\* thread p picks up a request in this step
Begins(p) == req[p].pc = "idle" /\ req'[p].pc # "idle"

\* the request thread p picked up, as the step leaves it: the response when
\* the handler already answered, the thread's locals otherwise
Settled(p) == IF req'[p].pc = "done" THEN resp' ELSE req'[p]

CountersUnchanged ==
    \A c \in ConfigIds : configs'[c].counter = configs[c].counter

Answered == \A p \in Threads : req[p].pc \in {"idle", "done"}

\* the code of configuration c at moving factor f
CodeOf(c, f) ==
    generate_otp_code(configs[c].secret_key.secret, configs[c].algorithm,
                      configs[c].digits, f)

\* thread p writes the advanced counter in this step
Writes(p) == req[p].pc = "commit_counter" /\ req'[p].pc = "log_event"

\* C1: a successful HOTP validation without an explicit counter advances the
\* stored counter by exactly 1: the write of such a validation leaves the
\* stored counter one higher than it found it.
C1_ValidationAdvancesByOne ==
    [][\A p \in Threads :
          (Writes(p) /\ req[p].kind = "validate") =>
              configs'[req[p].config_id].counter =
                  configs[req[p].config_id].counter + 1]_vars

\* C2: two concurrent HOTP generate requests with counter_increment on the
\* same configuration never hold the same pre-increment counter value, the
\* counter whose code each of them issues.
C2_NoSharedPreIncrement ==
    \A p, q \in Threads :
        (/\ p # q
         /\ req[p].kind = "generate" /\ req[q].kind = "generate"
         /\ req[p].next_counter # None /\ req[q].next_counter # None
         /\ req[p].config_id = req[q].config_id)
        => req[p].read_counter # req[q].read_counter

\* C3: once N validations without an explicit counter have succeeded on a
\* configuration, and nothing else advanced it, the stored counter is
\* exactly N higher than at the start.
C3_NoLostIncrement ==
    (Answered /\ otp_events["generate"] = 0) =>
        configs[1].counter =
            InitConfigs[1].counter + otp_events["validate_success"]

\* a step of a validation whose code was rejected or that ended in an error
FailedValidationStep(p) ==
    \/ Moves(p) /\ req[p].kind = "validate" /\ ~req[p].is_valid
    \/ Begins(p) /\ Settled(p).kind = "validate" /\ ~Settled(p).is_valid

\* C4: no step of a failed validation, TOTP or HOTP, with or without an
\* explicit counter, changes a stored counter.
C4_FailedValidationKeepsCounter ==
    [][\A p \in Threads : FailedValidationStep(p) => CountersUnchanged]_vars

\* a rejected HOTP code without an explicit counter, after the counter moved
C4_Witness ==
    /\ resp.kind = "validate" /\ resp.status = 200 /\ ~resp.is_valid
    /\ resp.config_id = 1 /\ resp.counter = None
    /\ resp.used_factor = 1 /\ configs[1].counter = 1

\* a step of a validation whose request pins an explicit counter
PinnedValidationStep(p) ==
    \/ Moves(p) /\ req[p].kind = "validate" /\ req[p].counter # None
    \/ Begins(p) /\ Settled(p).kind = "validate" /\ Settled(p).counter # None

\* C5: no step of a validation that gives an explicit counter changes a
\* stored counter, whether the code is accepted or rejected.
C5_PinnedValidationKeepsCounter ==
    [][\A p \in Threads : PinnedValidationStep(p) => CountersUnchanged]_vars

\* an HOTP code accepted at the explicit counter that is the stored one
C5_Witness ==
    /\ resp.kind = "validate" /\ resp.is_valid /\ resp.config_id = 1
    /\ resp.counter # None /\ resp.counter = configs[1].counter

\* C6: the write of an HOTP generation with counter_increment leaves the
\* stored counter one higher than it found it; a generation that answers
\* without that write (HOTP without counter_increment, TOTP) and every step
\* of a bulk generation change no counter.
C6_GenerateAdvance ==
    [][\A p \in Threads :
          /\ (Writes(p) /\ req[p].kind = "generate") =>
                 /\ configs'[req[p].config_id].counter =
                        configs[req[p].config_id].counter + 1
                 /\ \A c \in ConfigIds \ {req[p].config_id} :
                        configs'[c].counter = configs[c].counter
          /\ (Begins(p) /\ Settled(p).kind = "generate"
                        /\ Settled(p).next_counter = None) => CountersUnchanged
          /\ (Moves(p) /\ (req[p].kind = "bulk" \/ req'[p].kind = "bulk"))
                 => CountersUnchanged]_vars

\* C7: every step leaves each stored counter as it was or exactly one
\* higher.
C7_CounterMonotone ==
    [][\A c \in ConfigIds :
          \/ configs'[c].counter = configs[c].counter
          \/ configs'[c].counter = configs[c].counter + 1]_vars

\* a validation of an HOTP configuration that reached the engine
HotpValidation(p) ==
    /\ Begins(p)
    /\ Settled(p).kind = "validate"
    /\ Settled(p).otp_code # None
    /\ configs[Settled(p).config_id].otp_type = "hotp"

\* C8: an HOTP validation accepts the candidate exactly when it is the code
\* of the one checked counter, the explicit counter of the request or else
\* the stored counter; a candidate that is the code of a later counter and
\* not of the checked one is rejected.
C8_HotpSingleCounter ==
    [][\A p \in Threads :
          HotpValidation(p) =>
              LET v == Settled(p)
                  checked == IF v.counter # None THEN v.counter
                             ELSE configs[v.config_id].counter
              IN  /\ v.is_valid <=> (v.otp_code = CodeOf(v.config_id, checked))
                  /\ \A later \in Factors :
                        (/\ later > checked
                         /\ v.otp_code = CodeOf(v.config_id, later)
                         /\ v.otp_code # CodeOf(v.config_id, checked))
                        => ~v.is_valid]_vars

\* the code of the next counter, rejected
C8_Witness ==
    /\ resp.kind = "validate" /\ resp.status = 200 /\ resp.config_id = 1
    /\ resp.counter = None
    /\ resp.otp_code = CodeOf(1, resp.used_factor + 1)
    /\ ~resp.is_valid

\* a validation of a TOTP configuration that reached the engine
TotpValidation(p) ==
    /\ Begins(p)
    /\ Settled(p).kind = "validate"
    /\ Settled(p).otp_code # None
    /\ configs[Settled(p).config_id].otp_type = "totp"

\* C9: a TOTP validation accepts the candidate exactly when it is the code
\* of the time step of the validation time or of the step just before or
\* after it; the code of a step two or more steps away (that is not also the
\* code of one of those three) is rejected.
C9_TotpWindow ==
    [][\A p \in Threads :
          TotpValidation(p) =>
              LET v == Settled(p)
                  c == v.config_id
                  T == now \div configs[c].interval
                  near == {CodeOf(c, T - 1), CodeOf(c, T), CodeOf(c, T + 1)}
              IN  /\ v.is_valid <=> (v.otp_code \in near)
                  /\ \A f \in Factors :
                        (/\ (f <= T - 2 \/ f >= T + 2)
                         /\ v.otp_code = CodeOf(c, f)
                         /\ v.otp_code \notin near)
                        => ~v.is_valid]_vars

\* the code of the previous time step, accepted after the clock moved on
C9_Witness ==
    /\ resp.kind = "validate" /\ resp.config_id = 2 /\ resp.is_valid
    /\ resp.used_factor = now \div configs[2].interval
    /\ now > StartTime
    /\ resp.otp_code = CodeOf(2, resp.used_factor - 1)

\* a direct call of is_rate_limited happened in this step
RateStep ==
    attempts' # attempts \/ last_cleanup' # last_cleanup \/ rl' # rl

\* C10: a call is denied exactly when at least max_requests of the key's
\* recorded timestamps lie within the trailing window; an allowed call
\* leaves those timestamps followed by the current time, a denied call
\* leaves them alone.
C10_RateLimitDecision ==
    [][RateStep =>
          LET key == rl'.key
              before == IF key \in DOMAIN attempts THEN attempts[key] ELSE <<>>
              inside == SelectSeq(before, LAMBDA t : now - t < rl'.window)
          IN  /\ rl'.limited <=> (Len(inside) >= rl'.max_requests)
              /\ attempts'[key] = IF rl'.limited THEN inside
                                  ELSE Append(inside, now)]_vars

\* a denied call for a key that holds max_requests timestamps of two times
C10_Witness ==
    /\ rl.limited
    /\ rl.key \in DOMAIN attempts
    /\ Len(attempts[rl.key]) = rl.max_requests
    /\ attempts[rl.key][1] < now

\* C11: for one key and limit max, starting with no recorded call: the
\* first max calls, made within one window, are all allowed; any further
\* call inside that window is denied; a call made once the window has passed
\* since every earlier call is allowed again.
C11_BurstThenRecover ==
    \A i \in 1..Len(calls) :
        LET since_first == calls[i].at - calls[1].at
        IN  /\ (i <= rl.max_requests /\ since_first < rl.window)
                   => ~calls[i].limited
            /\ (i > rl.max_requests /\ since_first < rl.window)
                   => calls[i].limited
            /\ (\A j \in 1..(i - 1) : calls[i].at - calls[j].at >= rl.window)
                   => ~calls[i].limited

\* two calls allowed, the third denied in the same window, the fourth
\* allowed after the window
C11_Witness ==
    /\ Len(calls) = 4 /\ rl.max_requests = 2
    /\ ~calls[1].limited /\ ~calls[2].limited
    /\ calls[3].limited /\ calls[3].at - calls[1].at < rl.window
    /\ ~calls[4].limited /\ calls[4].at - calls[2].at >= rl.window

\* C12: no code or verdict is derived for a configuration whose algorithm
\* name is outside {sha1, sha256, sha512}: such a request ends in an error
\* and SHA-1 is never used in its place.
C12_UnknownAlgorithmFails ==
    (resp.kind \in {"generate", "validate"} /\ resp.status = 200)
        => configs[resp.config_id].algorithm \in {"sha1", "sha256", "sha512"}

\* thread p hands back the answer of a generate or validate request that
\* passed the rate limiter
Returns(p) ==
    /\ req[p].pc # "done" /\ req'[p].pc = "done"
    /\ resp'.kind \in {"generate", "validate"}
    /\ resp'.status # 429

\* C13: the step in which a generate or validate call returns to its caller,
\* with a code, a verdict or an error, adds exactly one row to otp_events.
C13_OneEventPerCall ==
    [][\A p \in Threads : Returns(p) => EventCount' = EventCount + 1]_vars

\* a step of thread p in which a write to the store or to the audit sink
\* raised
FailureStep(p) ==
    CommitCounterFails(p) \/ EventWriteFails(p) \/ LogEventAuditFails(p)

\* C14: a step of a generate or validate request in which the store or the
\* audit sink raised ends that request with an error response to the caller.
C14_NoSwallowedError ==
    [][\A p \in Threads :
          FailureStep(p) => (req'[p].pc = "done" /\ resp'.status # 200)]_vars

\* a row is added to otp_configs in this step
CreateStep == DOMAIN configs' # DOMAIN configs

\* the code of the secret made for configuration c, at moving factor f
OriginalCode(c, f) ==
    generate_otp_code(random_base32(c),
                      get_digest_algorithm(configs[c].algorithm),
                      configs[c].digits, f)

Spoiled(blob) == Altered(blob) \/ blob.key # encryption_key

\* C16: decrypt_secret fails on every blob that was altered or made under
\* another key, and a generate or validate request for a row with such a
\* blob ends without a code or verdict.
C16_TamperedBlobFails ==
    [][/\ \A c \in DOMAIN configs :
              Spoiled(configs[c].secret_key)
                 => decrypt_secret(configs[c].secret_key, encryption_key)
                       = DecryptError
        /\ \A p \in Threads :
              (/\ Begins(p)
               /\ Settled(p).kind \in {"generate", "validate"}
               /\ FindConfig(configs, Settled(p).config_id, Settled(p).user)
                     # None
               /\ Spoiled(configs[Settled(p).config_id].secret_key))
              => Settled(p).status # 200]_vars

\* what decrypt_secret gives for every stored blob
Decrypted(cfgs, key) ==
    [c \in DOMAIN cfgs |-> decrypt_secret(cfgs[c].secret_key, key)]

\* C17: a restart leaves the encryption key as it was, and every stored
\* secret decrypts after it as it did before.
C17_KeySurvivesRestart ==
    [][Restart =>
          /\ encryption_key' = encryption_key
          /\ Decrypted(configs', encryption_key')
                = Decrypted(configs, encryption_key)]_vars

\* C17 as amended: when ENCRYPTION_KEY holds a valid Fernet key, the same
\* at both starts, a restart leaves the encryption key as it was, and every
\* stored secret decrypts after it as it did before.
C17_EnvKeySurvivesRestart ==
    [][(Restart /\ env_key \in FernetKeys) =>
          /\ encryption_key' = encryption_key
          /\ Decrypted(configs', encryption_key')
                = Decrypted(configs, encryption_key)]_vars

\* a code was generated, the limiter has since lost that call to a restart,
\* and a validation after the restart found the secret and accepted a code
C17_Witness ==
    /\ env_key \in FernetKeys
    /\ otp_events["generate"] > 0
    /\ <<"generate", 1>> \notin DOMAIN attempts
    /\ resp.kind = "validate" /\ resp.is_valid

\* the secrets of all rows
Secrets == {random_base32(c) : c \in 1..MaxConfigs}

\* C18: no decrypted secret is among the values of a log line, of a
\* response or of a column of a stored row; the secret_key column, in the
\* table and in a response, holds a blob made under an encryption key.
C18_SecretNeverExposed ==
    /\ logged \cap Secrets = {}
    /\ {resp.otp_code, resp.counter, resp.used_factor, resp.next_counter}
          \cap Secrets = {}
    /\ resp.kind = "list" =>
          \A i \in 1..Len(resp.results) :
              /\ resp.results[i].secret_key.key \in CipherKeys
              /\ resp.results[i].counter \notin Secrets
    /\ \A c \in DOMAIN configs :
          /\ configs[c].secret_key.key \in CipherKeys
          /\ {configs[c].counter, configs[c].digits, configs[c].interval,
              configs[c].name} \cap Secrets = {}

\* after a row was created, a TOTP code was generated from a decrypted
\* secret and the handler's log lines were written
C18_Witness ==
    /\ Cardinality(DOMAIN configs) = MaxConfigs
    /\ resp.kind = "generate" /\ resp.status = 200 /\ resp.config_id = 2
    /\ resp.config_id \in logged
    /\ remaining_seconds(now, configs[2].interval) \in logged

\* the limiter holds at least max_requests timestamps of the key inside the
\* handlers' window
GateClosed(key, max_requests) ==
    /\ key \in DOMAIN attempts
    /\ Len(NewerThan(attempts[key], now - HandlerWindow)) >= max_requests

\* thread p picks up a generate or validate request that the limiter denies
DeniedRequest(p) ==
    /\ Begins(p)
    /\ \/ /\ Settled(p).kind = "generate"
          /\ GateClosed(<<"generate", Settled(p).user>>, GenerateMaxRequests)
       \/ /\ Settled(p).kind = "validate"
          /\ GateClosed(<<"validate", Settled(p).user>>, ValidateMaxRequests)

\* C19: a generate or validate request that the rate limiter denies ends at
\* once with status 429: no code or verdict, no log line of the handler
\* body, no event or audit row, no counter write done or pending.
C19_GateBeforeEngine ==
    [][\A p \in Threads :
          DeniedRequest(p) =>
              /\ req'[p].pc = "done"
              /\ resp'.status = 429
              /\ resp'.otp_code = None /\ ~resp'.is_valid
              /\ logged' = {}
              /\ otp_events' = otp_events /\ audit_logs' = audit_logs
              /\ configs' = configs]_vars

\* the thirty-first generation inside one minute, turned away
C19_Witness ==
    /\ resp.kind = "generate" /\ resp.status = 429
    /\ Len(attempts[<<"generate", 1>>]) = GenerateMaxRequests
    /\ otp_events["generate"] = GenerateMaxRequests

\* C20: the sweep of all keys runs only in a call made more than
\* cleanup_interval seconds after the previous sweep (or the start), a call
\* without a sweep touches no other key's list, and after a call with a
\* sweep every key left in the map has a timestamp no older than one hour.
C20_AmortizedSweep ==
    [][RateStep =>
          LET swept == last_cleanup' # last_cleanup
          IN  /\ swept => (now - last_cleanup) > cleanup_interval
              /\ ~swept =>
                    \A k \in (DOMAIN attempts) \ {rl'.key} :
                        k \in DOMAIN attempts' /\ attempts'[k] = attempts[k]
              /\ swept =>
                    \A k \in DOMAIN attempts' :
                        \E i \in 1..Len(attempts'[k]) :
                            now - attempts'[k][i] <= OneHourSeconds]_vars

\* a sweep ran in the latest call and left another key, one with a
\* timestamp of the last hour, in the map
C20_Witness ==
    /\ last_cleanup = now /\ now > StartTime
    /\ \E k \in DOMAIN attempts : k # rl.key

\* C21: a thread that stands at the lock of is_rate_limited finds it free:
\* no caller waits while another request's call is in progress.
C21_NeverWaitsForLock ==
    \A p \in Threads : req[p].pc = "at_lock" => LockHolders = {}

\* thread p picks up a validation of an HOTP configuration that gives no
\* explicit counter and reaches the engine
ImplicitHotpValidation(p) ==
    /\ HotpValidation(p)
    /\ Settled(p).counter = None

\* C22: with requests served one after the other, a validation that gives
\* no explicit counter is never checked against a counter value at which an
\* earlier such validation of the configuration was accepted.
C22_CounterAcceptedOnce ==
    [][\A p \in Threads :
          ImplicitHotpValidation(p) =>
              <<Settled(p).config_id, configs[Settled(p).config_id].counter>>
                  \notin accepted]_vars

\* two codes were accepted at the stored counter, and the code accepted
\* first, submitted again without a counter, is rejected
C22_Witness ==
    /\ {<<1, 0>>, <<1, 1>>} \subseteq accepted
    /\ resp.kind = "validate" /\ resp.status = 200 /\ resp.counter = None
    /\ resp.otp_code = CodeOf(1, 0) /\ ~resp.is_valid

\* the request of thread p ends in an error response in this step
EndsInError(p) ==
    /\ req[p].pc # "done" /\ req'[p].pc = "done"
    /\ resp'.kind \in {"generate", "validate"}
    /\ resp'.status # 200

\* C23: when a generate or validate request ends in an error response, the
\* stored counter of its configuration is the one the request found: an
\* error before the row was loaded changes no row, an error after it leaves
\* the counter the handler loaded.
C23_ErrorLeavesCounter ==
    [][\A p \in Threads :
          EndsInError(p) =>
              IF req[p].pc = "idle" THEN configs' = configs
              ELSE configs'[req[p].config_id].counter = req[p].read_counter]_vars

\* thread p picks up a generate or validate request that passes the rate
\* limiter and names no active row of its caller
NamesNoRow(p) ==
    /\ Begins(p)
    /\ Settled(p).kind \in {"generate", "validate"}
    /\ Settled(p).status # 429
    /\ FindConfig(configs, Settled(p).config_id, Settled(p).user) = None

\* C24: a generate or validate request that names a configuration which
\* does not exist or belongs to another user is answered with status 404,
\* changes no counter and records no event.
C24_UnknownConfigIs404 ==
    [][\A p \in Threads :
          NamesNoRow(p) =>
              /\ req'[p].pc = "done"
              /\ resp'.status = 404
              /\ CountersUnchanged
              /\ otp_events' = otp_events]_vars

\* configuration c is a row of user u
OwnedBy(c, u) == c \in DOMAIN InitConfigs /\ InitConfigs[c].user_id = u

\* the rows of the users that send no request in this model
ForeignConfigs == {c \in ConfigIds : InitConfigs[c].user_id \notin Callers}

\* C25: no step of a generate, bulk-generate, validate, get or delete
\* request of one user removes or changes a row of another user, and every
\* code, verdict or row in a response comes from a row of the caller.
C25_UserIsolation ==
    [][ /\ \A c \in ForeignConfigs :
              c \in DOMAIN configs' /\ configs'[c] = configs[c]
        /\ (resp'.kind \in {"generate", "validate"} /\ resp'.status = 200)
              => OwnedBy(resp'.config_id, resp'.user)
        /\ resp'.kind = "bulk" =>
              \A i \in 1..Len(resp'.results) :
                  resp'.results[i].success
                      => OwnedBy(resp'.results[i].config_id, resp'.user)
        /\ resp'.kind \in {"list", "get"} =>
              \A i \in 1..Len(resp'.results) :
                  resp'.results[i].user_id = resp'.user]_vars

\* the caller deleted a row of its own and then asked to delete the row of
\* the other user, which is still there with its counter
C25_Witness ==
    /\ 1 \notin DOMAIN configs
    /\ resp.kind = "delete" /\ resp.status = 404 /\ resp.config_id = 3
    /\ 3 \in DOMAIN configs /\ configs[3] = InitConfigs[3]

\* C26: every call of a history with windows of at most one hour got the
\* verdict that a limiter without the periodic sweep gives it.
C26_SweepKeepsVerdicts ==
    \A i \in 1..Len(calls) :
        calls[i].window <= OneHourSeconds
            => calls[i].limited = NoSweepCall(calls, i).limited

\* thread p answers a login with non-empty tokens in this step
HandsOutTokens(p) ==
    /\ req[p].pc = "login_mfa" /\ req'[p].pc = "done"
    /\ resp'.status = 200
    /\ resp'.results[1].access_token # ""

InLogin(p) == req[p].pc \in {"login_reject", "login_accept", "login_mfa"}

\* C28: while the account's lock is in force no login hands out tokens, and
\* no step of a login changes failed_login_attempts.
C28_LockedAccountStaysShut ==
    [][\A p \in Threads :
          (InLogin(p) /\ Moves(p)
             /\ check_account_lockout(
                    users[req[p].user].account_locked_until, now)) =>
              /\ ~HandsOutTokens(p)
              /\ users'[req[p].user].failed_login_attempts
                    = users[req[p].user].failed_login_attempts]_vars

\* thread p commits a failed login in this step
FailedLoginStep(p) == req[p].pc = "login_reject" /\ Moves(p)

\* C29: failed_login_attempts goes back to 0 only in the commit of a login
\* whose password was right; every failed login that brings it to
\* MAX_FAILED_ATTEMPTS or more locks the account for 15 minutes from then;
\* the passing of time changes no row, so a failure after the lock's end
\* locks again.
C29_LockoutCounter ==
    [][/\ \A u \in DOMAIN users :
              (users'[u].failed_login_attempts = 0
                 /\ users[u].failed_login_attempts # 0) =>
                  \E p \in Threads :
                      /\ req[p].pc = "login_accept" /\ Moves(p)
                      /\ req[p].user = u /\ req[p].is_valid
       /\ \A p \in Threads :
              (FailedLoginStep(p)
                 /\ users'[req[p].user].failed_login_attempts
                       >= MAX_FAILED_ATTEMPTS) =>
                  users'[req[p].user].account_locked_until
                      = now + ACCOUNT_LOCKOUT_MINUTES * 60
       /\ now' # now => users' = users]_vars

\* a failed login at the end of the first lock locked the account again
C29_Witness ==
    /\ resp.kind = "login" /\ resp.status = 401
    /\ resp.user \in DOMAIN users
    /\ users[resp.user].failed_login_attempts > MAX_FAILED_ATTEMPTS
    /\ users[resp.user].account_locked_until
          = StartTime + 2 * ACCOUNT_LOCKOUT_MINUTES * 60

\* C30: an account with mfa_enabled holds an mfa_secret.
C30_EnabledHasSecret ==
    \A u \in DOMAIN users :
        users[u].mfa_enabled => users[u].mfa_secret # None

====
